---- MODULE Spec2Model ----
(***************************************************************************)
(* Model of the URL shortener's service layer (UrlService over            *)
(* UrlRepository): allocation of short codes, resolution with expiry,     *)
(* deferred click counting, deletion and the expiration sweep.            *)
(*                                                                         *)
(* Requests run concurrently.  A request is suspended at every store      *)
(* operation it awaits, so one action is one store operation together     *)
(* with the synchronous code that follows it up to the next await.        *)
(* A request that needs a single store operation is a single action.      *)
(* Option<T> is written as a sequence: << >> is None and <<v>> is Some(v). *)
(* The title column carries no behaviour and is left out of the rows.     *)
(***************************************************************************)
EXTENDS Integers, Sequences, FiniteSets, TLC

VARIABLES
    urls,      \* the rows of table urls
    now,       \* the clock read by Utc::now()
    nextId,    \* source of fresh row ids (nanoid)
    req,       \* per request slot: the request in flight and its locals
    pending,   \* per short code: click increments spawned and not yet run
    res,       \* the response produced by the step just taken, if any
    acct,      \* history, per stored row id: click accounting of the row
    requests,        \* RateLimiterState.requests: per key, its entry if any
    max_requests,    \* RateLimiterState.max_requests
    window_seconds,  \* RateLimiterState.window_seconds
    instant,         \* the clock read by Instant::now()
    chk,             \* per check slot: the call waiting for the write lock
    sweep,           \* the cleanup call waiting for the write lock, if any
    verdict,         \* the outcome of the last check that returned
    hist             \* history, per key: checks allowed in the entry's window

service_vars == <<urls, now, nextId, req, pending, res, acct>>
limiter_vars ==
    <<requests, max_requests, window_seconds, instant, chk, sweep, verdict, hist>>
vars == <<service_vars, limiter_vars>>

\* ---------------------------------------------------------------- bounds
MaxTime == 1
MaxUrls == 2
MaxClicks == 2
MaxInstant == 2
MaxStamp == 9

\* ------------------------------------------------------- program constants
DEFAULT_SHORT_CODE_LENGTH == 7
MAX_URL_LENGTH == 2048
MIN_CUSTOM_CODE_LENGTH == 3
MAX_CUSTOM_CODE_LENGTH == 20
MAX_ATTEMPTS == 10

SHORT_CODE_CHARS ==
    << "a","b","c","d","e","f","g","h","i","j","k","l","m",
       "n","o","p","q","r","s","t","u","v","w","x","y","z",
       "A","B","C","D","E","F","G","H","I","J","K","L","M",
       "N","O","P","Q","R","S","T","U","V","W","X","Y","Z",
       "0","1","2","3","4","5","6","7","8","9" >>

\* the characters VALID_SHORT_CODE accepts: ^[a-zA-Z0-9_-]+$
VALID_SHORT_CODE_CHARS ==
    { "a","b","c","d","e","f","g","h","i","j","k","l","m",
      "n","o","p","q","r","s","t","u","v","w","x","y","z",
      "A","B","C","D","E","F","G","H","I","J","K","L","M",
      "N","O","P","Q","R","S","T","U","V","W","X","Y","Z",
      "0","1","2","3","4","5","6","7","8","9","_","-" }

None == << >>
Some(v) == <<v>>

\* ------------------------------------------------------------------ inputs
\* slots for requests suspended between two store operations
Procs == {1, 2}
Users == {"u1", "u2"}
\* who sends a request: nobody authenticated, or a user
Requesters == {None} \cup {Some(u) : u \in Users}
\* who creates rows: anonymous callers and u1 (u2 owns nothing)
Creators == {None, Some("u1")}

\* indices rng.gen_range(0..62) may return; a stream repeats one index
RngIndices == {0}
RngStreams == {[i \in 1..MAX_CUSTOM_CODE_LENGTH |-> k] : k \in RngIndices}

GoodUrl == [scheme |-> "https", len |-> 19]
HttpUrl == [scheme |-> "http", len |-> 18]
FtpUrl == [scheme |-> "ftp", len |-> 15]
NotAUrl == [scheme |-> "", len |-> 9]
LongUrl == [scheme |-> "https", len |-> MAX_URL_LENGTH + 1]
UrlInputs == {GoodUrl, FtpUrl, NotAUrl, LongUrl}

\* candidate codes: one a generated code can equal, one only a caller can
\* choose, one with a character outside the alphabet, one too short
CodeA == [i \in 1..DEFAULT_SHORT_CODE_LENGTH |-> "a"]
CodeB == <<"m", "y", "-", "l", "i", "n", "k">>
BadCode == <<"a", "!", "c">>
ShortCode == <<"a", "b">>
CandidateInputs == {CodeA, CodeB, BadCode, ShortCode}

\* expires_in_hours of a request
TtlInputs == {None, Some(0)}

\* --------------------------------------------------------- pure functions
\* a generator that stops one character early
generate_short_code_one_short(length, rng) ==
    [i \in 1..(length - 1) |-> SHORT_CODE_CHARS[rng[i] + 1]]

\* utils::generate_short_code_with_length: one alphabet character per draw
generate_short_code_with_length(length, rng) ==
    [i \in 1..length |-> SHORT_CODE_CHARS[rng[i] + 1]]

generate_short_code(rng) ==
    generate_short_code_with_length(DEFAULT_SHORT_CODE_LENGTH, rng)

\* utils::is_valid_short_code
is_valid_short_code(code) ==
    /\ ~(Len(code) < MIN_CUSTOM_CODE_LENGTH \/ Len(code) > MAX_CUSTOM_CODE_LENGTH)
    /\ Len(code) >= 1
    /\ \A i \in 1..Len(code) : code[i] \in VALID_SHORT_CODE_CHARS

\* utils::is_valid_url: length bound, parse, scheme http or https
is_valid_url(u) ==
    IF u.len > MAX_URL_LENGTH THEN FALSE
    ELSE u.scheme \in {"http", "https"}

\* CreateUrlRequest's derived validate(): url parses and is at most 2048 long,
\* custom_code (when given) is 3..20 long and matches VALID_SHORT_CODE
request_validate(u, candidate) ==
    /\ u.scheme # ""
    /\ u.len <= MAX_URL_LENGTH
    /\ candidate # None =>
         /\ Len(candidate[1]) >= MIN_CUSTOM_CODE_LENGTH
         /\ Len(candidate[1]) <= MAX_CUSTOM_CODE_LENGTH
         /\ \A i \in 1..Len(candidate[1]) : candidate[1][i] \in VALID_SHORT_CODE_CHARS

\* the codes a stored row can carry: generated ones and valid candidates
StoredCodes ==
    {generate_short_code(s) : s \in RngStreams}
        \cup {c \in CandidateInputs : is_valid_short_code(c)}

\* a check that takes no row for expired, and one that takes a row for
\* expired from its expiry instant on
is_expired_never(url, t) == FALSE
is_expired_inclusive(url, t) ==
    IF url.expires_at = None THEN FALSE ELSE url.expires_at[1] <= t

\* Url::is_expired, with the clock reading passed in
is_expired(url, t) ==
    IF url.expires_at = None THEN FALSE ELSE url.expires_at[1] < t

\* UrlBuilder::expires_in_hours (time unit of the model: one hour)
expires_in_hours(t, hours) == t + hours

\* ------------------------------------------------------- store operations
\* UrlRepository::find_by_short_code: the rows fetch_optional may return
find_by_short_code(short_code) == {r \in urls : r.short_code = short_code}

\* a check that takes no code for stored
exists_never(short_code) == FALSE

\* UrlRepository::exists: SELECT COUNT(*) ... > 0
exists(short_code) == Cardinality({r \in urls : r.short_code = short_code}) > 0

\* the row UrlRepository::create inserts; clicks takes the column default
NewRow(id, short_code, original_url, user_id, expires_at, t) ==
    [id |-> id, short_code |-> short_code, original_url |-> original_url,
     user_id |-> user_id, clicks |-> 0, expires_at |-> expires_at,
     created_at |-> t, updated_at |-> t]

\* table urls accepting an INSERT: the table holds no uniqueness constraint
\* on short_code, the check made before the insert is the only guard
InsertRow(rows, row) == rows \cup {row}

\* an update that writes a count read before another increment (a lost
\* update), and one that counts down
ClickedLost(r, t) == [r EXCEPT !.clicks = 1, !.updated_at = t]
ClickedDown(r, t) == [r EXCEPT !.clicks = @ - 1, !.updated_at = t]

\* an update that also clears the expiry of the row
ClickedRenewing(r, t) ==
    [r EXCEPT !.clicks = @ + 1, !.updated_at = t, !.expires_at = None]

\* UPDATE urls SET clicks = clicks + 1, updated_at = ? (one row)
Clicked(r, t) == [r EXCEPT !.clicks = @ + 1, !.updated_at = t]

\* UrlRepository::increment_clicks: every row WHERE short_code = ?
increment_clicks(rows, short_code, t) ==
    {IF r.short_code = short_code THEN Clicked(r, t) ELSE r : r \in rows}

\* Repository::delete: DELETE FROM urls WHERE id = ?
delete_by_id(rows, id) == {r \in rows : r.id # id}

\* a sweep that also takes the rows expiring at the clock's instant
delete_expired_inclusive(rows, t) ==
    {r \in rows : ~(r.expires_at # None /\ r.expires_at[1] <= t)}

\* UrlRepository::delete_expired: the rows the DELETE leaves
delete_expired(rows, t) ==
    {r \in rows : ~(r.expires_at # None /\ r.expires_at[1] < t)}

\* ------------------------------------------------------- request records
\* a slot: idle, or a create or delete suspended between two store operations
Idle ==
    [pc |-> "idle", op |-> "none", url |-> None, code |-> None,
     expires |-> None, attempts |-> 0, id |-> 0]

\* slots are interchangeable: a request that suspends takes the first idle one
FirstFree(p) ==
    /\ req[p].pc = "idle"
    /\ \A q \in Procs : q < p => req[q].pc # "idle"

\* a response: the operation, the error kind (or "Ok"), id the row the lookup
\* found or the insert wrote (0: none), value the target URL returned, n the
\* count returned
NoRes == [op |-> "none", kind |-> "none", id |-> 0, value |-> None, n |-> 0]

Response(op, kind, id, value, n) ==
    [op |-> op, kind |-> kind, id |-> id, value |-> value, n |-> n]

\* history kept per row id: successful resolves of the row's code while the
\* row is stored (hits); exact is FALSE, and hits no longer counted, once an
\* increment for the code was already spawned when the row was inserted or an
\* increment write for the code has failed; url is the URL the create request
\* of the row submitted; acked is TRUE once that create has answered Ok;
\* served, kept on request, counts the resolves that returned this very row
NoAcct ==
    [hits |-> 0, exact |-> TRUE, url |-> None, acked |-> FALSE, served |-> 0]
Inexact ==
    [hits |-> 0, exact |-> FALSE, url |-> None, acked |-> FALSE, served |-> 0]

InitService ==
    /\ urls = {}
    /\ now = 0
    /\ nextId = 1
    /\ req = [p \in Procs |-> Idle]
    /\ pending = [c \in StoredCodes |-> 0]
    /\ res = NoRes
    /\ acct = << >>

\* -------------------------------------------------------------- rate limiter
Keys == {"k1", "k2"}
CheckSlots == {1, 2}

\* the constructions of the limiter: new(max_requests, window_seconds), and
\* the derived Default (0, 0)
LimitInputs == {0, 1, 2}
WindowInputs == {0, 1}

\* an entry of the table: (count, window start)
Entry(count, start) == [count |-> count, start |-> start]

ChkIdle == [pc |-> "idle", key |-> "", now |-> 0]
NoVerdict == [key |-> "", kind |-> "none"]
NoCalls == [x \in (0..MaxInstant) \X (0..MaxInstant) |-> 0]
NoHist ==
    [granted |-> 0, denied |-> FALSE, calls |-> NoCalls,
     twin |-> None, swept |-> None, agree |-> TRUE, late |-> FALSE,
     resumed |-> FALSE]

\* Instant::duration_since: zero when the earlier instant is the later one
duration_since(t, earlier) == IF t >= earlier THEN t - earlier ELSE 0

\* a window test that takes every window for over
window_over_always(t, start) == TRUE

\* elapsed time exceeds the window
window_over(t, start) == duration_since(t, start) > window_seconds

\* a lookup that hands every call a fresh entry, and one that hands every
\* call the fullest entry of the table
or_insert_fresh(reqs, key, t) == Entry(0, t)
or_insert_shared(reqs, key, t) ==
    IF \A k \in Keys : reqs[k] = None THEN Entry(0, t)
    ELSE LET k == CHOOSE k \in Keys :
                    /\ reqs[k] # None
                    /\ \A j \in Keys :
                         reqs[j] # None => reqs[j][1].count <= reqs[k][1].count
         IN  reqs[k][1]

\* requests.entry(key).or_insert((0, now))
or_insert(reqs, key, t) ==
    IF reqs[key] = None THEN Entry(0, t) ELSE reqs[key][1]

\* a limit test that lets one more call through
limit_reached_late(count) == count > max_requests

\* the limit test of check
limit_reached(count) == count >= max_requests

\* a check whose rejected call restarts the window it was rejected in
check_entry_sliding(entry, t) ==
    IF window_over(t, entry.start)
    THEN [entry |-> Entry(1, t), kind |-> "Ok"]
    ELSE IF limit_reached(entry.count)
    THEN [entry |-> Entry(entry.count, t), kind |-> "RateLimited"]
    ELSE [entry |-> Entry(entry.count + 1, entry.start), kind |-> "Ok"]

\* a check whose rejected call is counted
check_entry_consuming(entry, t) ==
    IF window_over(t, entry.start)
    THEN [entry |-> Entry(1, t), kind |-> "Ok"]
    ELSE IF limit_reached(entry.count)
    THEN [entry |-> Entry(entry.count + 1, entry.start), kind |-> "RateLimited"]
    ELSE [entry |-> Entry(entry.count + 1, entry.start), kind |-> "Ok"]

\* check on the entry of its key: window test, limit test, counter update;
\* the entry it leaves and the result it returns
check_entry(entry, t) ==
    IF window_over(t, entry.start)
    THEN [entry |-> Entry(1, t), kind |-> "Ok"]
    ELSE IF limit_reached(entry.count)
    THEN [entry |-> entry, kind |-> "RateLimited"]
    ELSE [entry |-> Entry(entry.count + 1, entry.start), kind |-> "Ok"]

\* the limiter is constructed, no call has been made
InitLimiterIdle ==
    /\ requests = [k \in Keys |-> None]
    /\ instant = 0
    /\ chk = [p \in CheckSlots |-> ChkIdle]
    /\ sweep = None
    /\ verdict = NoVerdict
    /\ hist = [k \in Keys |-> NoHist]

Init ==
    /\ InitService
    /\ InitLimiterIdle
    /\ max_requests = 0
    /\ window_seconds = 0

InitLimiter ==
    /\ InitService
    /\ InitLimiterIdle
    /\ max_requests \in LimitInputs
    /\ window_seconds \in WindowInputs

\* the monotonic clock advances
LimiterTick ==
    /\ instant < MaxInstant
    /\ instant' = instant + 1
    /\ UNCHANGED <<requests, max_requests, window_seconds, chk, sweep, verdict, hist>>
    /\ UNCHANGED service_vars

\* check: Instant::now() is read, then the call waits for the write lock
CheckStart(key) ==
    /\ \E p \in CheckSlots :
         /\ chk[p].pc = "idle"
         /\ \A q \in CheckSlots : q < p => chk[q].pc # "idle"
         /\ chk' = [chk EXCEPT ![p] = [pc |-> "lock", key |-> key, now |-> instant]]
    /\ UNCHANGED <<requests, max_requests, window_seconds, instant, sweep, verdict, hist>>
    /\ UNCHANGED service_vars

\* check under the write lock: entry lookup or insertion, then the tests and
\* the update; the guard drops with the return.  The history keeps more when
\* asked to.  With note "timed": per allowed call, the instant the call read
\* and the instant it returned at.  With note "twin": the entry (twin) a
\* limiter given the same checks and no cleanup holds for the key, whether
\* every check of the key had the same result in both (agree), whether a
\* check found the key's entry swept by a cleanup that read a later instant
\* than the check did (late), and whether a check that read no earlier
\* instant than the cleanup found it swept (resumed).
CheckUnderLock(p, note) ==
    /\ chk[p].pc = "lock"
    /\ LET key == chk[p].key
           t == chk[p].now
           entry == or_insert(requests, key, t)
           out == check_entry(entry, t)
           base == IF out.kind # "Ok" THEN [hist[key] EXCEPT !.denied = TRUE]
                   ELSE IF requests[key] = None
                           \/ window_over(t, requests[key][1].start)
                   THEN [hist[key] EXCEPT !.granted = 1]
                   ELSE [hist[key] EXCEPT !.granted = @ + 1]
           seen == IF out.kind = "Ok"
                   THEN [hist[key].calls EXCEPT ![<<t, instant>>] = @ + 1]
                   ELSE hist[key].calls
           other == check_entry(or_insert([k \in Keys |-> hist[k].twin], key, t), t)
           found_swept == requests[key] = None /\ hist[key].swept # None
           noted == IF note = "timed" THEN [base EXCEPT !.calls = seen]
                    ELSE IF note = "twin"
                    THEN [base EXCEPT
                            !.twin = Some(other.entry),
                            !.agree = @ /\ other.kind = out.kind,
                            !.late = @ \/ (found_swept /\ t < hist[key].swept[1]),
                            !.resumed = @ \/ (/\ found_swept
                                              /\ t >= hist[key].swept[1]
                                              /\ other.kind = out.kind),
                            !.swept = None]
                    ELSE base
       IN  /\ requests' = [requests EXCEPT ![key] = Some(out.entry)]
           /\ verdict' = [key |-> key, kind |-> out.kind]
           /\ hist' = [hist EXCEPT ![key] = noted]
    /\ chk' = [chk EXCEPT ![p] = ChkIdle]
    /\ UNCHANGED <<max_requests, window_seconds, instant, sweep>>
    /\ UNCHANGED service_vars

CheckLocked(p) == CheckUnderLock(p, "none")

CheckLockedTimed(p) == CheckUnderLock(p, "timed")

CheckLockedTwin(p) == CheckUnderLock(p, "twin")

\* cleanup: Instant::now() is read, then the call waits for the write lock
CleanupStart ==
    /\ sweep = None
    /\ sweep' = Some(instant)
    /\ UNCHANGED <<requests, max_requests, window_seconds, instant, chk, verdict, hist>>
    /\ UNCHANGED service_vars

\* a sweep that drops every entry
retain_nothing(reqs, t) == [k \in Keys |-> None]

\* a sweep that also drops the entries whose window closes at its instant
retain_open_only(reqs, t) ==
    [k \in Keys |->
        IF reqs[k] # None /\ ~(duration_since(t, reqs[k][1].start) < window_seconds)
        THEN None
        ELSE reqs[k]]

\* the entries retain keeps
retain(reqs, t) ==
    [k \in Keys |->
        IF reqs[k] # None /\ ~(duration_since(t, reqs[k][1].start) <= window_seconds)
        THEN None
        ELSE reqs[k]]

\* cleanup under the write lock.  With twinned set, the history keeps, for
\* every key whose entry this cleanup removes, the instant the cleanup read.
CleanupUnderLock(twinned) ==
    /\ sweep # None
    /\ requests' = retain(requests, sweep[1])
    /\ hist' = [k \in Keys |->
                  IF requests'[k] # None THEN hist[k]
                  ELSE IF twinned /\ requests[k] # None
                  THEN [hist[k] EXCEPT !.granted = 0, !.swept = sweep]
                  ELSE [hist[k] EXCEPT !.granted = 0]]
    /\ sweep' = None
    /\ UNCHANGED <<max_requests, window_seconds, instant, chk, verdict>>
    /\ UNCHANGED service_vars

CleanupLocked == CleanupUnderLock(FALSE)

CleanupLockedTwin == CleanupUnderLock(TRUE)

\* the clock advances
Tick ==
    /\ res = NoRes
    /\ now < MaxTime
    /\ now' = now + 1
    /\ UNCHANGED <<urls, nextId, req, pending, res, acct, limiter_vars>>

\* the response of the last step reaches its caller; every other step waits
\* for it (res = NoRes)
Deliver ==
    /\ res # NoRes
    /\ res' = NoRes
    /\ UNCHANGED <<urls, now, nextId, req, pending, acct, limiter_vars>>

\* ------------------------------------------------------------------ create
\* the model stores at most MaxUrls rows over its whole run
CanAllocate == nextId <= MaxUrls

ExpiresFor(ttl) ==
    IF ttl = None THEN None ELSE Some(expires_in_hours(now, ttl[1]))

\* a create that inserts before it looks for the code
CreateWithCodeEager(u, code) ==
    /\ res = NoRes
    /\ request_validate(u, Some(code))
    /\ is_valid_url(u)
    /\ is_valid_short_code(code)
    /\ CanAllocate
    /\ urls' = InsertRow(urls, NewRow(nextId, code, u, None, None, now))
    /\ acct' = Append(acct, [Inexact EXCEPT !.url = Some(u)])
    /\ nextId' = nextId + 1
    /\ res' = IF exists(code)
              THEN Response("create", "Conflict", 0, None, 0)
              ELSE Response("create", "Ok", nextId, None, 0)
    /\ UNCHANGED <<now, req, pending, limiter_vars>>

\* create_short_url with custom_code = Some(code): validation, the format
\* check, the existence check (first await) and the builder.  user_id is not
\* read before the INSERT binds it: its value is drawn there.  expires_in_hours
\* is read by the builder alone.
CreateWithCode(u, code) ==
    /\ res = NoRes
    /\ IF ~request_validate(u, Some(code))
       THEN /\ res' = Response("create", "Validation", 0, None, 0)
            /\ req' = req
       ELSE IF ~is_valid_url(u)
       THEN /\ res' = Response("create", "BadRequest", 0, None, 0)
            /\ req' = req
       ELSE IF ~is_valid_short_code(code)
       THEN /\ res' = Response("create", "BadRequest", 0, None, 0)
            /\ req' = req
       ELSE IF exists(code)
       THEN /\ res' = Response("create", "Conflict", 0, None, 0)
            /\ req' = req
       ELSE /\ CanAllocate
            /\ res' = NoRes
            /\ \E p \in Procs, ttl \in TtlInputs :
                 /\ FirstFree(p)
                 /\ req' = [req EXCEPT ![p] =
                      [Idle EXCEPT !.pc = "insert", !.op = "create",
                                   !.url = Some(u), !.code = Some(code),
                                   !.expires = ExpiresFor(ttl)]]
    /\ UNCHANGED <<urls, now, nextId, pending, acct, limiter_vars>>

\* create_short_url with custom_code = None, up to generate_unique_code.
\* expires_in_hours is not read before the builder runs: its value is drawn
\* there.  One request at a time is inside the loop.
CreateGenerated(u) ==
    /\ res = NoRes
    /\ IF ~request_validate(u, None)
       THEN /\ res' = Response("create", "Validation", 0, None, 0)
            /\ req' = req
       ELSE IF ~is_valid_url(u)
       THEN /\ res' = Response("create", "BadRequest", 0, None, 0)
            /\ req' = req
       ELSE /\ CanAllocate
            /\ \A q \in Procs : req[q].pc # "gen"
            /\ res' = NoRes
            /\ \E p \in Procs :
                 /\ FirstFree(p)
                 /\ req' = [req EXCEPT ![p] =
                      [Idle EXCEPT !.pc = "gen", !.op = "create",
                                   !.url = Some(u)]]
    /\ UNCHANGED <<urls, now, nextId, pending, acct, limiter_vars>>

\* a loop that never gives up
GenAttemptUnbounded(p, rng, ttl) ==
    /\ res = NoRes
    /\ req[p].pc = "gen"
    /\ LET code == generate_short_code(rng) IN
       IF ~exists(code)
       THEN /\ res' = NoRes
            /\ req' = [req EXCEPT ![p] =
                 [@ EXCEPT !.pc = "insert", !.code = Some(code),
                           !.attempts = 0, !.expires = ExpiresFor(ttl)]]
       ELSE /\ res' = NoRes
            /\ req' = req
    /\ UNCHANGED <<urls, now, nextId, pending, acct, limiter_vars>>

\* one round of the loop of generate_unique_code: generate, check existence;
\* after the loop, the builder
GenAttempt(p, rng, ttl) ==
    /\ res = NoRes
    /\ req[p].pc = "gen"
    /\ LET code == generate_short_code(rng) IN
       IF ~exists(code)
       THEN /\ res' = NoRes
            /\ req' = [req EXCEPT ![p] =
                 [@ EXCEPT !.pc = "insert", !.code = Some(code),
                           !.attempts = 0, !.expires = ExpiresFor(ttl)]]
       ELSE IF req[p].attempts + 1 >= MAX_ATTEMPTS
       THEN /\ res' = Response("create", "Internal", 0, None, 0)
            /\ req' = [req EXCEPT ![p] = Idle]
       ELSE /\ res' = NoRes
            /\ req' = [req EXCEPT ![p] = [@ EXCEPT !.attempts = @ + 1]]
    /\ UNCHANGED <<urls, now, nextId, pending, acct, limiter_vars>>

\* UrlRepository::create: the INSERT of the row the builder made
CreateInsert(p, user) ==
    /\ res = NoRes
    /\ req[p].pc = "insert"
    /\ CanAllocate
    /\ LET row == NewRow(nextId, req[p].code[1], req[p].url[1], user,
                         req[p].expires, now) IN
       /\ urls' = InsertRow(urls, row)
       /\ acct' = Append(acct,
            [(IF pending[row.short_code] = 0 THEN NoAcct ELSE Inexact)
                EXCEPT !.url = req[p].url])
       /\ req' = [req EXCEPT ![p] = [Idle EXCEPT !.pc = "readback", !.op = "create",
                                                !.id = row.id]]
    /\ nextId' = nextId + 1
    /\ UNCHANGED <<now, pending, res, limiter_vars>>

\* UrlRepository::create: find_by_id of the inserted row, then the response
CreateReadBack(p) ==
    /\ res = NoRes
    /\ req[p].pc = "readback"
    /\ IF \E r \in urls : r.id = req[p].id
       THEN /\ res' = Response("create", "Ok", req[p].id, None, 0)
            /\ acct' = [acct EXCEPT ![req[p].id].acked = TRUE]
       ELSE /\ res' = Response("create", "Internal", req[p].id, None, 0)
            /\ acct' = acct
    /\ req' = [req EXCEPT ![p] = Idle]
    /\ UNCHANGED <<urls, now, nextId, pending, limiter_vars>>

\* ----------------------------------------------------------------- resolve
\* the clicks the rows of a code hold and are owed stay within MaxClicks
ClickRoom(short_code) ==
    /\ pending[short_code] < MaxClicks
    /\ \A r \in find_by_short_code(short_code) :
          r.clicks + pending[short_code] < MaxClicks

\* get_original_url reading row r: expiry check, spawn of the increment task.
\* With noting set, the history also counts the resolve for the row returned.
ResolveRow(r, code, noting) ==
    IF is_expired(r, now)
    THEN /\ res' = Response("resolve", "NotFound", r.id, None, 0)
         /\ UNCHANGED <<pending, acct>>
    ELSE /\ ClickRoom(code)
         /\ pending' = [pending EXCEPT ![code] = @ + 1]
         /\ acct' = [i \in DOMAIN acct |->
                       LET a == IF noting /\ i = r.id
                                THEN [acct[i] EXCEPT !.served = @ + 1]
                                ELSE acct[i]
                       IN  IF a.exact /\ \E x \in find_by_short_code(code) : x.id = i
                           THEN [a EXCEPT !.hits = @ + 1]
                           ELSE a]
         /\ res' = Response("resolve", "Ok", r.id, Some(r.original_url), 0)

\* get_original_url
ResolveNoting(code, noting) ==
    /\ res = NoRes
    /\ IF find_by_short_code(code) = {}
       THEN /\ res' = Response("resolve", "NotFound", 0, None, 0)
            /\ UNCHANGED <<pending, acct>>
       ELSE \E r \in find_by_short_code(code) : ResolveRow(r, code, noting)
    /\ UNCHANGED <<urls, now, nextId, req, limiter_vars>>

Resolve(code) == ResolveNoting(code, FALSE)

ResolveServed(code) == ResolveNoting(code, TRUE)

\* the spawned task: increment_clicks applies its UPDATE; the task runs
\* whether or not the response of the resolve has reached its caller
IncrementRun(code) ==
    /\ pending[code] > 0
    /\ urls' = increment_clicks(urls, code, now)
    /\ pending' = [pending EXCEPT ![code] = @ - 1]
    /\ UNCHANGED <<now, nextId, req, res, acct, limiter_vars>>

\* a spawned task whose error goes to the response of the resolve
IncrementFailPropagates(code) ==
    /\ pending[code] > 0
    /\ pending' = [pending EXCEPT ![code] = @ - 1]
    /\ res' = Response("resolve", "Database", 0, None, 0)
    /\ UNCHANGED <<urls, now, nextId, req, acct, limiter_vars>>

\* the spawned task: the UPDATE fails, the error is logged and dropped
IncrementFail(code) ==
    /\ pending[code] > 0
    /\ pending' = [pending EXCEPT ![code] = @ - 1]
    /\ acct' = [i \in DOMAIN acct |->
                  IF \E x \in find_by_short_code(code) : x.id = i
                  THEN [acct[i] EXCEPT !.hits = 0, !.exact = FALSE]
                  ELSE acct[i]]
    /\ UNCHANGED <<urls, now, nextId, req, res, limiter_vars>>

\* a metadata read that counts as a traversal
GetInfoCounting(code) ==
    /\ res = NoRes
    /\ \E r \in find_by_short_code(code) :
         /\ ClickRoom(code)
         /\ res' = Response("get_info", "Ok", r.id, Some(r.original_url), 0)
    /\ pending' = [pending EXCEPT ![code] = @ + 1]
    /\ UNCHANGED <<urls, now, nextId, req, acct, limiter_vars>>

\* get_url_info: lookup, response built from the row found
GetInfo(code) ==
    /\ res = NoRes
    /\ IF find_by_short_code(code) = {}
       THEN res' = Response("get_info", "NotFound", 0, None, 0)
       ELSE \E r \in find_by_short_code(code) :
              res' = Response("get_info", "Ok", r.id, Some(r.original_url), 0)
    /\ UNCHANGED <<urls, now, nextId, req, pending, acct, limiter_vars>>

\* ------------------------------------------------------------------ delete
\* a check that refuses nobody, and one that lets every requester through on
\* an ownerless row
delete_forbidden_never(url, user_id) == FALSE
delete_forbidden_owner_skip(url, user_id) ==
    user_id # None /\ url.user_id # None /\ url.user_id # user_id

\* the ownership check of delete_url
delete_forbidden(url, user_id) ==
    IF user_id # None THEN url.user_id # user_id ELSE FALSE

\* delete_url: lookup and ownership check
DeleteFind(code, user) ==
    /\ res = NoRes
    /\ IF find_by_short_code(code) = {}
       THEN /\ res' = Response("delete", "NotFound", 0, None, 0)
            /\ req' = req
       ELSE \E r \in find_by_short_code(code) :
              IF delete_forbidden(r, user)
              THEN /\ res' = Response("delete", "Forbidden", r.id, None, 0)
                   /\ req' = req
              ELSE /\ res' = NoRes
                   /\ \E p \in Procs :
                        /\ FirstFree(p)
                        /\ req' = [req EXCEPT ![p] =
                             [Idle EXCEPT !.pc = "delete", !.op = "delete",
                                          !.id = r.id]]
    /\ UNCHANGED <<urls, now, nextId, pending, acct, limiter_vars>>

\* delete_url: repo.delete(&url.id), then Ok(())
DeleteExec(p) ==
    /\ res = NoRes
    /\ req[p].pc = "delete"
    /\ urls' = delete_by_id(urls, req[p].id)
    /\ acct' = [acct EXCEPT ![req[p].id] = NoAcct]
    /\ res' = Response("delete", "Ok", req[p].id, None, 0)
    /\ req' = [req EXCEPT ![p] = Idle]
    /\ UNCHANGED <<now, nextId, pending, limiter_vars>>

\* cleanup_expired: the expiration sweep, returning the number of rows removed
CleanupExpired ==
    /\ res = NoRes
    /\ urls' = delete_expired(urls, now)
    /\ acct' = [i \in DOMAIN acct |->
                  IF \E r \in urls' : r.id = i THEN acct[i] ELSE NoAcct]
    /\ res' = Response("cleanup", "Ok", 0, None, Cardinality(urls) - Cardinality(urls'))
    /\ UNCHANGED <<now, nextId, req, pending, limiter_vars>>

\* -------------------------------------------------------- specifications
\* the candidate codes of the specifications that follow one code's rows
OneCodeInputs == {CodeA, BadCode}

\* allocation: creates with a candidate or a generated code racing each
\* other, under the clock and the expiration sweep
StepAllocation ==
    \/ Tick
    \/ \E u \in UrlInputs, c \in CandidateInputs : CreateWithCode(u, c)
    \/ \E u \in UrlInputs : CreateGenerated(u)
    \/ \E p \in Procs, rng \in RngStreams, ttl \in TtlInputs : GenAttempt(p, rng, ttl)
    \/ \E p \in Procs : CreateInsert(p, None)
    \/ \E p \in Procs : CreateReadBack(p)
    \/ CleanupExpired

NextAllocation ==
    \/ StepAllocation
    \/ Deliver

SpecAllocation == Init /\ [][NextAllocation]_vars

\* deletion: rows of anonymous callers and of u1, deleted by every requester
StepDeletion ==
    \/ Tick
    \/ \E u \in UrlInputs, c \in OneCodeInputs : CreateWithCode(u, c)
    \/ \E p \in Procs, user \in Creators : CreateInsert(p, user)
    \/ \E p \in Procs : CreateReadBack(p)
    \/ \E c \in StoredCodes, user \in Requesters : DeleteFind(c, user)
    \/ \E p \in Procs : DeleteExec(p)
    \/ CleanupExpired

NextDeletion ==
    \/ StepDeletion
    \/ Deliver

SpecDeletion == Init /\ [][NextDeletion]_vars

\* resolution: lookups and the deferred click increments, with creation,
\* deletion and the sweep running beside them
StepResolution ==
    \/ Tick
    \/ \E u \in UrlInputs, c \in OneCodeInputs : CreateWithCode(u, c)
    \/ \E p \in Procs : CreateInsert(p, None)
    \/ \E p \in Procs : CreateReadBack(p)
    \/ \E c \in StoredCodes : Resolve(c)
    \/ \E c \in StoredCodes : res = NoRes /\ IncrementRun(c)
    \/ \E c \in StoredCodes : res = NoRes /\ IncrementFail(c)
    \/ \E c \in StoredCodes : GetInfo(c)
    \/ \E c \in StoredCodes : DeleteFind(c, None)
    \/ \E p \in Procs : DeleteExec(p)
    \/ CleanupExpired

NextResolution ==
    \/ StepResolution
    \/ Deliver

SpecResolution == Init /\ [][NextResolution]_vars

\* independence: lookups whose responses are still on their way while the
\* increments they spawned run or fail
StepIndependence ==
    \/ Tick
    \/ \E u \in UrlInputs, c \in OneCodeInputs : CreateWithCode(u, c)
    \/ \E p \in Procs : CreateInsert(p, None)
    \/ \E p \in Procs : CreateReadBack(p)
    \/ \E c \in StoredCodes : Resolve(c)
    \/ \E c \in StoredCodes : IncrementRun(c)
    \/ \E c \in StoredCodes : IncrementFail(c)
    \/ \E c \in StoredCodes : GetInfo(c)

NextIndependence ==
    \/ StepIndependence
    \/ Deliver

SpecIndependence == Init /\ [][NextIndependence]_vars

\* retry: creates with a generated code; every round of the loop that can
\* run is eventually run, and every response reaches its caller
NextRetry ==
    \/ Tick
    \/ \E u \in UrlInputs : CreateGenerated(u)
    \/ \E p \in Procs, rng \in RngStreams, ttl \in TtlInputs : GenAttempt(p, rng, ttl)
    \/ \E p \in Procs : CreateInsert(p, None)
    \/ \E p \in Procs : CreateReadBack(p)
    \/ CleanupExpired
    \/ Deliver

SpecRetry ==
    /\ Init
    /\ [][NextRetry]_vars
    /\ WF_vars(Deliver)
    /\ \A p \in Procs :
         SF_vars(\E rng \in RngStreams, ttl \in TtlInputs : GenAttempt(p, rng, ttl))

\* the expiry predicate on its own: one stored row whose expires_at is absent
\* or any instant up to MaxStamp, read at any clock value up to MaxStamp
ExpiresInputs == {None} \cup {Some(e) : e \in 0..MaxStamp}

InitExpiry ==
    /\ \E e \in ExpiresInputs :
         urls = {NewRow(1, CodeA, GoodUrl, None, e, 0)}
    /\ now \in 0..MaxStamp
    /\ nextId = 2
    /\ req = [p \in Procs |-> Idle]
    /\ pending = [c \in StoredCodes |-> 0]
    /\ res = NoRes
    /\ acct = <<[NoAcct EXCEPT !.url = Some(GoodUrl), !.acked = TRUE]>>
    /\ InitLimiterIdle
    /\ max_requests = 0
    /\ window_seconds = 0

\* Url::is_expired called on a stored row; value carries the boolean returned
IsExpiredCall ==
    /\ res = NoRes
    /\ \E r \in urls :
         res' = Response("is_expired", "Ok", r.id, Some(is_expired(r, now)), 0)
    /\ UNCHANGED <<urls, now, nextId, req, pending, acct, limiter_vars>>

NextExpiry ==
    \/ IsExpiredCall
    \/ Deliver

SpecExpiry == InitExpiry /\ [][NextExpiry]_vars

\* the rate limiter: concurrent checks of two keys, the clock and cleanup
NextLimiter ==
    \/ LimiterTick
    \/ \E k \in Keys : CheckStart(k)
    \/ \E p \in CheckSlots : CheckLocked(p)
    \/ CleanupStart
    \/ CleanupLocked

SpecLimiter == InitLimiter /\ [][NextLimiter]_vars

\* ------------------------------------------------------------- properties
\* the expiry timestamp of row r is present and before the clock
PastExpiry(r) == r.expires_at # None /\ r.expires_at[1] < now

\* the rows stored under a code
RowsOf(code) == {r \in urls : r.short_code = code}

\* row r is the one the lookup of this step returned
FoundRow(r) ==
    \/ res'.id = r.id
    \/ \E p \in Procs : req'[p] # req[p] /\ req'[p].id = r.id

\* the entry the check of slot p works on: the key's own entry, or the fresh
\* one of a first observation
OwnEntry(p) ==
    IF requests[chk[p].key] = None THEN Entry(0, chk[p].now)
    ELSE requests[chk[p].key][1]

\* the time of the call of slot p, less the window start of its entry
Elapsed(p) ==
    IF chk[p].now >= OwnEntry(p).start THEN chk[p].now - OwnEntry(p).start ELSE 0

\* C1: in every reachable state the store holds at most one row per short
\* code, whatever the interleaving of concurrent creates.
C1_UniqueCodes ==
    \A r1 \in urls, r2 \in urls : r1.short_code = r2.short_code => r1.id = r2.id

C3_ResolveMasksExpiry ==
    [][\A c \in StoredCodes :
         Resolve(c)
            => /\ RowsOf(c) = {} => res'.kind = "NotFound"
               /\ \A r \in RowsOf(c) :
                    (FoundRow(r) /\ PastExpiry(r))
                       => /\ res'.kind = "NotFound"
                          /\ res'.value = None
                          /\ pending' = pending]_vars

\* a resolve found a row and answered NotFound
C3_Witness ==
    /\ res.op = "resolve"
    /\ res.kind = "NotFound"
    /\ \E r \in urls : r.id = res.id /\ PastExpiry(r)

\* C4: a delete by a present requester who is not the owner of the row found
\* fails with Forbidden and leaves the row stored; a delete by the owner goes
\* on to remove the row and succeeds.
C4_DeleteBetweenUsers ==
    [][/\ \A c \in StoredCodes, u \in Users :
            DeleteFind(c, Some(u))
               => \A r \in RowsOf(c) :
                    /\ (FoundRow(r) /\ r.user_id # None /\ r.user_id # Some(u))
                          => (res'.kind = "Forbidden" /\ urls' = urls /\ req' = req)
                    /\ (FoundRow(r) /\ r.user_id = Some(u))
                          => (res' = NoRes /\ \E p \in Procs :
                                req'[p].pc = "delete" /\ req'[p].id = r.id)
       /\ \A p \in Procs :
            DeleteExec(p)
               => (res'.kind = "Ok" /\ \A r \in urls' : r.id # req[p].id)]_vars

\* a delete was refused with Forbidden on a row that has an owner
C4_Witness ==
    /\ res.op = "delete"
    /\ res.kind = "Forbidden"
    /\ \E r \in urls : r.id = res.id /\ r.user_id # None

\* C5: every delete whose requester does not match the owner of the owned row
\* found, the absent requester included, fails with Forbidden and leaves the
\* row stored.
C5_OwnedRemovedOnlyByOwner ==
    [][\A c \in StoredCodes, user \in Requesters :
         DeleteFind(c, user)
            => \A r \in RowsOf(c) :
                 (FoundRow(r) /\ r.user_id # None /\ r.user_id # user)
                    => (res'.kind = "Forbidden" /\ urls' = urls /\ req' = req)]_vars

C7_GetInfoLikeResolve ==
    [][\A c \in StoredCodes :
         GetInfo(c)
            => /\ RowsOf(c) = {} => res'.kind = "NotFound"
               /\ \A r \in RowsOf(c) :
                    FoundRow(r) => (res'.kind = "Ok" <=> ~PastExpiry(r))]_vars

\* C8: a delete on a code that has no row fails with NotFound; a delete whose
\* lookup returns an expired row fails with NotFound too and does not go on to
\* remove the row.
C8_DeleteExpiredNotFound ==
    [][\A c \in StoredCodes, user \in Requesters :
         DeleteFind(c, user)
            => /\ RowsOf(c) = {} => res'.kind = "NotFound"
               /\ \A r \in RowsOf(c) :
                    (FoundRow(r) /\ PastExpiry(r))
                       => (res'.kind = "NotFound" /\ req' = req)]_vars

\* C9: for a stored row whose code had no increment outstanding when the row
\* was inserted and no failed increment write since, once every spawned
\* increment has run, click_count is the starting count 0 plus the number of
\* successful resolves of its code during the row's life.
C9_ClicksEventuallyExact ==
    \A r \in urls :
        (acct[r.id].exact /\ pending[r.short_code] = 0)
            => r.clicks = acct[r.id].hits

\* two resolves of a row were counted and no increment is outstanding
C9_Witness ==
    \E r \in urls :
        /\ acct[r.id].exact
        /\ acct[r.id].hits >= 2
        /\ pending[r.short_code] = 0
        /\ r.clicks = acct[r.id].hits

\* C10: no step lowers the click_count of a row that stays stored.
C10_ClicksNeverDecrease ==
    [][\A r \in urls : \A r2 \in urls' :
         r2.id = r.id => r2.clicks >= r.clicks]_vars

\* a clicked row stays stored while a delete has just removed another row
C10_Witness ==
    /\ res.op = "delete"
    /\ res.kind = "Ok"
    /\ \E r \in urls : r.clicks >= 1 /\ r.id # res.id

\* C11: the response of a resolve is fixed by the row its lookup returns and
\* the expiry check: NotFound for no row or an expired row, otherwise Ok with
\* the row's target URL, produced in the step that spawns the increment; no
\* increment, run or failed, changes a response.
C11_ResolveIndependentOfIncrement ==
    [][/\ \A c \in StoredCodes :
            Resolve(c)
               => /\ RowsOf(c) = {}
                       => res' = Response("resolve", "NotFound", 0, None, 0)
                  /\ \A r \in RowsOf(c) :
                       FoundRow(r)
                          => res' = IF PastExpiry(r)
                                    THEN Response("resolve", "NotFound", r.id, None, 0)
                                    ELSE Response("resolve", "Ok", r.id,
                                                  Some(r.original_url), 0)
       /\ \A c \in StoredCodes :
            (IncrementRun(c) \/ IncrementFail(c)) => res' = res]_vars

\* a resolve answered Ok, its increment has failed before the answer reached
\* the caller, and the answer stands
C11_Witness ==
    /\ res.op = "resolve"
    /\ res.kind = "Ok"
    /\ res.value # None
    /\ \E r \in urls :
         /\ r.id = res.id
         /\ r.clicks = 0
         /\ pending[r.short_code] = 0

\* C12: get_info spawns no click increment, suspends nothing and leaves the
\* set of rows and every field of every row unchanged.
C12_GetInfoPure ==
    [][\A c \in StoredCodes :
         GetInfo(c) => (urls' = urls /\ pending' = pending /\ req' = req)]_vars

\* get_info has answered with a row that has been clicked
C12_Witness ==
    /\ res.op = "get_info"
    /\ res.kind = "Ok"
    /\ \E r \in urls : r.id = res.id /\ r.clicks >= 1

\* C13: with max_requests >= 1, a check whose elapsed time since the window
\* start of its key does not exceed window_seconds is allowed exactly when
\* fewer than max_requests checks were allowed in that window, and then adds
\* one to count; a check whose elapsed time exceeds window_seconds is allowed
\* and leaves count = 1 and window_start = the time of the call.
C13_BudgetAndWindowReset ==
    [][\A p \in CheckSlots :
         (CheckLocked(p) /\ max_requests >= 1)
            => LET key == chk[p].key IN
               IF Elapsed(p) > window_seconds
               THEN /\ verdict' = [key |-> key, kind |-> "Ok"]
                    /\ requests'[key] = Some(Entry(1, chk[p].now))
               ELSE /\ verdict'.kind = "Ok" <=> hist[key].granted < max_requests
                    /\ verdict'.kind # "Ok" => verdict'.kind = "RateLimited"
                    /\ verdict'.kind = "Ok"
                          => requests'[key] =
                               Some(Entry(OwnEntry(p).count + 1, OwnEntry(p).start))]_vars

\* a key was refused, and a later check of it has restarted its window
C13_Witness ==
    /\ max_requests >= 1
    /\ \E k \in Keys :
         /\ hist[k].denied
         /\ verdict = [key |-> k, kind |-> "Ok"]
         /\ requests[k] # None
         /\ requests[k][1].count = 1
         /\ requests[k][1].start > window_seconds

\* C14: with max_requests >= 1, whatever the interleaving of concurrent checks,
\* the number of checks allowed in the window of a key's entry is the entry's
\* count and never exceeds max_requests.
C14_AllowedWithinLimit ==
    max_requests >= 1
        => \A k \in Keys :
             /\ hist[k].granted <= max_requests
             /\ requests[k] # None => requests[k][1].count = hist[k].granted
             /\ requests[k] = None => hist[k].granted = 0

\* two checks of one key wait for the lock while a single allowance is left
C14_Witness ==
    /\ max_requests >= 1
    /\ \A p \in CheckSlots : chk[p].pc = "lock"
    /\ \E k \in Keys :
         /\ \A p \in CheckSlots : chk[p].key = k
         /\ requests[k] # None
         /\ requests[k][1].count = max_requests - 1

\* C15: a check of key K1 leaves the entry of every other key as it was, and
\* its result is fixed by K1's own entry: it is refused exactly when its own
\* window is open and its own count has reached max_requests.
C15_KeysIsolated ==
    [][\A p \in CheckSlots :
         CheckLocked(p)
            => /\ \A k2 \in Keys \ {chk[p].key} :
                    requests'[k2] = requests[k2] /\ hist'[k2] = hist[k2]
               /\ verdict'.kind = "RateLimited"
                    <=> (Elapsed(p) <= window_seconds
                           /\ OwnEntry(p).count >= max_requests)]_vars

\* one key has been refused and the other is allowed
C15_Witness ==
    /\ max_requests >= 1
    /\ \E k1 \in Keys, k2 \in Keys :
         /\ k1 # k2
         /\ hist[k1].denied
         /\ requests[k1] # None
         /\ requests[k1][1].count = max_requests
         /\ verdict = [key |-> k2, kind |-> "Ok"]

C17_ExpiryPredicate ==
    res.op = "is_expired"
        => \A r \in urls :
             r.id = res.id
                => /\ res.value = Some(TRUE)
                        <=> (r.expires_at # None /\ r.expires_at[1] < now)
                   /\ res.value = Some(FALSE)
                        <=> (r.expires_at = None \/ r.expires_at[1] >= now)
                   /\ r.expires_at = None => res.value = Some(FALSE)
                   /\ r.expires_at = Some(now) => res.value = Some(FALSE)

\* is_expired has answered false on a row that expires at the clock's instant
C17_Witness ==
    /\ res.op = "is_expired"
    /\ res.value = Some(FALSE)
    /\ now >= 1
    /\ \E r \in urls : r.id = res.id /\ r.expires_at = Some(now)

\* C18: the sweep removes exactly the rows whose expires_at is present and
\* before the clock, which are the rows resolve takes for expired at that
\* clock, returns the number of rows it removed, and leaves every other row
\* stored with all its fields.
C18_PurgeExact ==
    [][CleanupExpired
         => /\ urls' = {r \in urls : ~PastExpiry(r)}
            /\ \A r \in urls : r \notin urls' <=> is_expired(r, now)
            /\ res'.kind = "Ok"
            /\ res'.n = Cardinality({r \in urls : PastExpiry(r)})]_vars

\* a sweep has removed a row and kept another that expires at the clock's
\* instant
C18_Witness ==
    /\ res.op = "cleanup"
    /\ res.n >= 1
    /\ \E r \in urls : r.expires_at = Some(now)

\* C19: with no candidate supplied, a request in the loop has made fewer than
\* 10 failed attempts; a round whose generated code is absent from the store
\* at its check leaves the loop with that code; a round whose code is stored
\* counts one more attempt, and at the 10th fails with Internal, writing no
\* row; and a request in the loop eventually leaves it.
C19_BoundedRetry ==
    /\ [](\A p \in Procs : req[p].pc = "gen" => req[p].attempts < 10)
    /\ [][\A p \in Procs, rng \in RngStreams, ttl \in TtlInputs :
            GenAttempt(p, rng, ttl)
               => LET code == generate_short_code(rng) IN
                  /\ urls' = urls
                  /\ RowsOf(code) = {}
                       => (req'[p].pc = "insert" /\ req'[p].code = Some(code)
                             /\ res' = NoRes)
                  /\ (RowsOf(code) # {} /\ req[p].attempts < 9)
                       => (req'[p].pc = "gen" /\ res' = NoRes
                             /\ req'[p].attempts = req[p].attempts + 1)
                  /\ (RowsOf(code) # {} /\ req[p].attempts >= 9)
                       => (req'[p] = Idle /\ res'.op = "create"
                             /\ res'.kind = "Internal")]_vars
    /\ \A p \in Procs : (req[p].pc = "gen") ~> (req[p].pc # "gen")

\* ten generated codes in a row were found stored: the create has failed
\* and the rows are the ones that made it fail
C19_Witness ==
    /\ res.op = "create"
    /\ res.kind = "Internal"
    /\ res.id = 0
    /\ RowsOf(CodeA) # {}

\* C20: a step in which a create fails on its URL (Validation, BadRequest),
\* on its candidate (Validation, BadRequest), with Conflict, or on the
\* exhausted retry budget (Internal, no row written before) leaves the rows
\* and all their fields as they were, and leaves no insert of the failed
\* request outstanding.
C20_FailedCreateWritesNothing ==
    [][(res' # res /\ res'.op = "create" /\ res'.kind # "Ok" /\ res'.id = 0)
          => /\ res'.kind \in {"Validation", "BadRequest", "Conflict", "Internal"}
             /\ urls' = urls
             /\ nextId' = nextId
             /\ acct' = acct
             /\ \/ req' = req
                \/ \E p \in Procs :
                     /\ req[p].pc = "gen"
                     /\ res'.kind = "Internal"
                     /\ req' = [req EXCEPT ![p] = Idle]]_vars

\* a create has failed with BadRequest beside a stored row and a create that
\* is about to insert
C20_Witness ==
    /\ res.op = "create"
    /\ res.kind = "BadRequest"
    /\ urls # {}
    /\ \E p \in Procs : req[p].pc = "insert"
\* round trip: creates of one code with two different URLs, lookups, deletes
\* and the sweep
RoundTripUrls == {GoodUrl, HttpUrl}

StepRoundTrip ==
    \/ Tick
    \/ \E u \in RoundTripUrls, c \in OneCodeInputs : CreateWithCode(u, c)
    \/ \E p \in Procs : CreateInsert(p, None)
    \/ \E p \in Procs : CreateReadBack(p)
    \/ \E c \in StoredCodes : Resolve(c)
    \/ \E c \in StoredCodes : res = NoRes /\ IncrementRun(c)
    \/ \E c \in StoredCodes, user \in Requesters : DeleteFind(c, user)
    \/ \E p \in Procs : DeleteExec(p)
    \/ CleanupExpired

NextRoundTrip ==
    \/ StepRoundTrip
    \/ Deliver

SpecRoundTrip == Init /\ [][NextRoundTrip]_vars

\* C21: a lookup of a code that has no row answers NotFound; a lookup of code
\* C that starts after the create of a row of C has answered Ok, while that
\* row is stored and not expired, answers Ok with exactly the URL that create
\* submitted.
C21_RoundTrip ==
    [][\A c \in StoredCodes : Resolve(c) =>
          /\ RowsOf(c) = {} => res'.kind = "NotFound"
          /\ \A r \in RowsOf(c) :
                (acct[r.id].acked /\ ~PastExpiry(r)) =>
                    /\ res'.kind = "Ok"
                    /\ res'.value = acct[r.id].url]_vars

\* C22: every stored row that carries expires_at has it strictly after its
\* created_at, whatever expires_in_hours the create was given, 0 included.
C22_ExpiresAfterCreated ==
    \A r \in urls : r.expires_at # None => r.expires_at[1] > r.created_at

\* the ids of the stored rows
IdsOf(rows) == {r.id : r \in rows}

\* C23: per row id, every step keeps short_code, original_url, user_id and
\* expires_at (and created_at) of a row that stays stored; a row past its
\* expiry stays past it; a row that is not past its expiry leaves the store
\* only by an explicit delete; and a row that enters the store carries an id
\* no earlier row ever had, so a removed row never comes back.
C23_Lifecycle ==
    [][/\ \A r \in urls, r2 \in urls' :
            r2.id = r.id =>
                /\ r2.short_code = r.short_code
                /\ r2.original_url = r.original_url
                /\ r2.user_id = r.user_id
                /\ r2.expires_at = r.expires_at
                /\ r2.created_at = r.created_at
                /\ PastExpiry(r) => r2.expires_at[1] < now'
       /\ \A r \in urls :
            (r.id \notin IdsOf(urls') /\ ~PastExpiry(r)) => res'.op = "delete"
       /\ \A r \in urls : r.id < nextId
       /\ \A r2 \in urls' :
            r2.id \notin IdsOf(urls) => (r2.id = nextId /\ nextId' > nextId)]_vars

\* a row that was clicked while live and has since passed its expiry
C23_Witness ==
    \E r \in urls : r.clicks > 0 /\ PastExpiry(r)

\* generation: generate_short_code_with_length called with every length up to
\* MaxGenLength; the draws of a call start at any index of the alphabet and
\* either repeat it or walk the alphabet from it
MaxGenLength == 21

GenLengths == 0..MaxGenLength

GenStreams ==
    {[i \in 1..MaxGenLength |-> (k + d * (i - 1)) % Len(SHORT_CODE_CHARS)] :
        k \in 0..(Len(SHORT_CODE_CHARS) - 1), d \in {0, 1}}

\* one call; n carries the length asked for, value the string returned
GenerateCall(length, rng) ==
    /\ res = NoRes
    /\ res' = Response("generate", "Ok", 0,
                       Some(generate_short_code_with_length(length, rng)), length)
    /\ UNCHANGED <<urls, now, nextId, req, pending, acct, limiter_vars>>

NextGenerate ==
    \/ \E length \in GenLengths, rng \in GenStreams : GenerateCall(length, rng)
    \/ Deliver

SpecGenerate == Init /\ [][NextGenerate]_vars

\* the 62 characters [A-Za-z0-9]
AlphaNumeric == VALID_SHORT_CODE_CHARS \ {"_", "-"}

\* C24: a generated code has exactly the length asked for and only characters
\* of the 62-character alphabet [A-Za-z0-9]; for every length from
\* MIN_CUSTOM_CODE_LENGTH to MAX_CUSTOM_CODE_LENGTH it passes
\* is_valid_short_code.
C24_GeneratedWellFormed ==
    res.op = "generate" =>
        /\ Cardinality(AlphaNumeric) = 62
        /\ Len(res.value[1]) = res.n
        /\ \A i \in 1..Len(res.value[1]) : res.value[1][i] \in AlphaNumeric
        /\ (res.n >= MIN_CUSTOM_CODE_LENGTH /\ res.n <= MAX_CUSTOM_CODE_LENGTH)
              => is_valid_short_code(res.value[1])

\* a code of the greatest valid length ending in the last alphabet character
C24_Witness ==
    /\ res.op = "generate"
    /\ res.n = MAX_CUSTOM_CODE_LENGTH
    /\ res.value[1][MAX_CUSTOM_CODE_LENGTH] = "9"
    /\ is_valid_short_code(res.value[1])

\* C25: cleanup, at the instant it read, removes exactly the entries whose
\* window start lies more than window_seconds before that instant, and leaves
\* every other entry in the table with its count and window start unchanged.
C25_CleanupExact ==
    [][CleanupLocked =>
          \A k \in Keys :
             IF requests[k] = None THEN requests'[k] = None
             ELSE IF sweep[1] > requests[k][1].start + window_seconds
             THEN requests'[k] = None
             ELSE requests'[k] = requests[k]]_vars

\* a key that was rejected, so had an entry, has none after a cleanup, while
\* the other key's entry is in the table
C25_Witness ==
    /\ sweep = None
    /\ \E k \in Keys, j \in Keys :
         /\ hist[k].denied
         /\ requests[k] = None
         /\ requests[j] # None

\* bursts: the limiter constructed with a limit of at least one, the checks
\* of one key, every allowed call recorded with the instants it read and
\* returned at
BurstKeys == {"k1"}

InitBurst ==
    /\ InitLimiter
    /\ max_requests >= 1

NextBurst ==
    \/ LimiterTick
    \/ \E k \in BurstKeys : CheckStart(k)
    \/ \E p \in CheckSlots : CheckLockedTimed(p)
    \/ CleanupStart
    \/ CleanupLocked

SpecBurst == InitBurst /\ [][NextBurst]_vars

RECURSIVE SumCalls(_, _)
SumCalls(f, S) ==
    IF S = {} THEN 0
    ELSE LET x == CHOOSE x \in S : TRUE IN f[x] + SumCalls(f, S \ {x})

\* the allowed calls of key k made from instant a on and returned within
\* window_seconds of it
AllowedInSpan(k, a) ==
    SumCalls(hist[k].calls,
             {x \in DOMAIN hist[k].calls :
                 x[1] >= a /\ x[1] <= x[2] /\ x[2] <= a + window_seconds})

C27_FirstCheckAllowed ==
    [][\A p \in CheckSlots :
          (CheckLocked(p) /\ requests[chk[p].key] = None) =>
              /\ verdict'.kind = "Ok"
              /\ requests'[chk[p].key] = Some(Entry(1, chk[p].now))]_vars

\* C28: a rejected check of a key leaves the window start of the key's entry
\* where it was, and a check that read an instant more than window_seconds
\* after the window start of the key's entry is allowed and starts a new
\* window, however many checks of the key were rejected before.
C28_LimitedKeyRecovers ==
    [][\A p \in CheckSlots :
          (CheckLocked(p) /\ requests[chk[p].key] # None) =>
              /\ verdict'.kind = "RateLimited" =>
                    requests'[chk[p].key][1].start = requests[chk[p].key][1].start
              /\ chk[p].now > requests[chk[p].key][1].start + window_seconds =>
                    /\ verdict'.kind = "Ok"
                    /\ requests'[chk[p].key] = Some(Entry(1, chk[p].now))]_vars

\* a limiter that allows no call within a window has allowed a check of a key
\* it had rejected: the call came after the window of the key's entry
C28_Witness ==
    /\ max_requests = 0
    /\ verdict.kind = "Ok"
    /\ hist[verdict.key].denied
    /\ requests[verdict.key] # None
    /\ requests[verdict.key][1].count = 1

\* transparency: the limiter constructed with a limit of at least one, the
\* checks of one key, and beside it the table of a limiter given the same
\* checks and no cleanup
NextTransparent ==
    \/ LimiterTick
    \/ \E k \in BurstKeys : CheckStart(k)
    \/ \E p \in CheckSlots : CheckLockedTwin(p)
    \/ CleanupStart
    \/ CleanupLockedTwin

SpecTransparent == InitBurst /\ [][NextTransparent]_vars

\* C29 as stated: with max_requests at least 1, every check has the same
\* result in the limiter that runs cleanup and in a limiter given the same
\* checks and no cleanup.
C29_CleanupTransparent ==
    \A k \in Keys : max_requests >= 1 => hist[k].agree

\* C29, amended: the results are the same as long as no check has found its
\* key's entry removed by a cleanup that read a later instant than the check.
C29_CleanupTransparentInOrder ==
    \A k \in Keys : (max_requests >= 1 /\ ~hist[k].late) => hist[k].agree

\* a cleanup removed the entry of a key, a check that read no earlier instant
\* followed and had the same result in both limiters; no check was late
C29_Witness ==
    \E k \in Keys :
        /\ max_requests >= 1
        /\ hist[k].resumed
        /\ ~hist[k].late
        /\ hist[k].agree

\* credit: lookups, the increments they spawn, deletes and creates of the
\* same code, every resolve counted for the row it returned
StepCredit ==
    \/ \E u \in UrlInputs, c \in OneCodeInputs : CreateWithCode(u, c)
    \/ \E p \in Procs : CreateInsert(p, None)
    \/ \E p \in Procs : CreateReadBack(p)
    \/ \E c \in StoredCodes : ResolveServed(c)
    \/ \E c \in StoredCodes : res = NoRes /\ IncrementRun(c)
    \/ \E c \in StoredCodes : DeleteFind(c, None)
    \/ \E p \in Procs : DeleteExec(p)

NextCredit ==
    \/ StepCredit
    \/ Deliver

SpecCredit == Init /\ [][NextCredit]_vars

\* C30: an increment raises the click count of the row its resolve returned
\* and of no other row: no stored row holds more clicks than resolves
\* returned it, and an increment that finds no row of its resolved row left
\* changes no row.
C30_IncrementCreditsResolved ==
    \A r \in urls : r.clicks <= acct[r.id].served

====
